---- MODULE Spec2Model ----
(***************************************************************************)
(* merscope_transfer.py: the transfer/delete batch job, one run (Spec) or   *)
(* successive runs over the filesystem the last one left (SpecRerun).      *)
(* The filesystem (source categories, sentinel files, secondary copies,    *)
(* target tree), the command-line flags and config.json are the inputs;    *)
(* ERRORS, DELETED and TRANSFERRED are the module-level report lists.      *)
(* Failures of filesystem and mail calls are nondeterministic outcomes.    *)
(***************************************************************************)
EXTENDS Integers, Sequences, FiniteSets, TLC

\* ------------------------------------------------------------------ bounds
MaxExps == 2
TicksPerSec == 2
MaxRuns == 2

\* --------------------------------------------------------- program constants
SUFFIX == <<"analysis", "output", "raw_data">>

MinimumAge == 5 * 60

\* exit status of sys.exit(n) as the parent process sees it (8 bits)
ExitStatus(n) == n % 256

Exps == 1..MaxExps

NoFile == -1

\* sentinel ages, in ticks, on both sides of the five-minute threshold:
\* just over 300 s (int() gives 300) and 301 s
AgeChoices == { MinimumAge * TicksPerSec + 1,
                (MinimumAge + 1) * TicksPerSec }

\* values config.json may carry under minimum_age
MinAgeChoices == {0, 2 * MinimumAge}

VARIABLES
  ARG,            \* [TRANSFER, DELETE]: the parsed flags
  config_json,    \* config.json on disk: [minimum_age]
  CONFIG,         \* the loaded configuration: [minimum_age]
  outputRoot,     \* source/merfish_output exists
  srcDir,         \* srcDir[e][sfx]: source/merfish_<sfx>/<e> exists
  sentinel,       \* sentinel[e]: NoFile, or time.time() - mtime of MERLIN_FINISHED in ticks
  secondaryRoot,  \* CONFIG['secondary'] exists
  secDir,         \* secDir[e]: secondary/<e> exists
  targetRoot,     \* CONFIG['target'] exists
  tgtDir,         \* tgtDir[e][sfx]: target/merfish_<sfx>/<e> holds a complete copy
  pc,             \* position of the process
  dirs,           \* the listing being iterated
  idx,            \* index in dirs of the experiment being handled
  k,              \* index of the category in the copy loop / of the path in the delete sequence
  ok_to_delete,   \* local of handle_single_experiment
  delete_done,    \* local of delete_experiment
  ERRORS, DELETED, TRANSFERRED,
  observed,       \* what the filesystem looked like when each experiment was entered
  fsops,          \* the copytree, rmtree and getmtime calls made so far: [op, path, ok]
  lastRmdir,      \* the os.rmdir fallback in the latest delete_directory call of the
                  \* experiment being handled: "none", "ok" or "raised"
  reportChecked,  \* the end-of-run report step (line 246) was reached
  emailsSent,     \* notifications handed to the mail server
  exitCode,       \* exit status, -1 while running
  run,            \* number of the run of the program, from 1
  prev,           \* what the previous run left: its TRANSFERRED and DELETED, the mails it
                  \* sent, its listing, the sentinel ages at its end, how it ended
  stuck           \* experiments an earlier run removed in part

fsvars == <<outputRoot, srcDir, sentinel, secondaryRoot, secDir, targetRoot, tgtDir>>
report == <<ERRORS, DELETED, TRANSFERRED>>
vars == <<ARG, config_json, CONFIG, outputRoot, srcDir, sentinel, secondaryRoot, secDir,
          targetRoot, tgtDir, pc, dirs, idx, k, ok_to_delete, delete_done,
          ERRORS, DELETED, TRANSFERRED, observed, fsops, lastRmdir, reportChecked,
          emailsSent, exitCode, run, prev, stuck>>
history == <<run, prev, stuck>>

\* ------------------------------------------------------------------- paths
SourcePath(sfx, e) == <<"source", sfx, e>>
SecondaryPath(e) == <<"secondary", "", e>>
SecondaryRootPath == <<"secondary", "", 0>>

\* the four paths delete_experiment visits, in order
DeletePath(kk, e) == IF kk <= Len(SUFFIX) THEN SourcePath(SUFFIX[kk], e) ELSE SecondaryPath(e)

Err(msg, path, e) == [msg |-> msg, path |-> path, exp |-> e]

\* an error entry names experiment e (in its path or in its text)
ErrRefs(err, e) == err.exp = e \/ err.path[3] = e

\* ------------------------------------------------------------ pure helpers
\* int(x) of a tick count: truncation toward zero to whole seconds
IntSeconds(ticks) == IF ticks >= 0 THEN ticks \div TicksPerSec
                                   ELSE -((-ticks) \div TicksPerSec)

experiment_complete_strict(isfile, ageTicks) ==
  /\ isfile
  /\ ~(IntSeconds(ageTicks) < MinimumAge)

experiment_complete(isfile, ageTicks) ==
  /\ isfile
  /\ ~(IntSeconds(ageTicks) <= MinimumAge)

missing_raw_only(e) == ~srcDir[e]["raw_data"]

missing_none(e) == FALSE

missing(e) == \E i \in 1..Len(SUFFIX) : ~srcDir[e][SUFFIX[i]]

\* the root whose existence handle_single_experiment tests first
RootExists == secondaryRoot

\* ---------------------------------------------------------------- initial
\* before the first run there is no previous run
NoRun == [TRANSFERRED |-> <<>>, DELETED |-> <<>>, emailsSent |-> 0, dirs |-> <<>>,
          sentinel |-> [e \in Exps |-> NoFile], reported |-> FALSE, exitCode |-> -1]

CatChoices == { f \in [{"analysis", "output", "raw_data"} -> BOOLEAN] : f["output"] }

Init ==
  /\ ARG \in [TRANSFER : BOOLEAN, DELETE : BOOLEAN]
  /\ config_json \in [minimum_age : MinAgeChoices]
  /\ CONFIG = [minimum_age |-> NoFile]
  /\ outputRoot \in BOOLEAN
  /\ \E n \in 0..MaxExps :
       /\ ~outputRoot => n = 0
       /\ srcDir \in [Exps -> CatChoices \cup {[s \in {"analysis", "output", "raw_data"} |-> FALSE]}]
       /\ \A e \in Exps : srcDir[e]["output"] <=> e <= n
  /\ sentinel \in [Exps -> {NoFile} \cup AgeChoices]
  /\ \A e \in Exps : ~srcDir[e]["raw_data"] => sentinel[e] = NoFile
  /\ secondaryRoot \in BOOLEAN
  /\ secDir \in [Exps -> BOOLEAN]
  /\ \A e \in Exps : secDir[e] => (secondaryRoot /\ srcDir[e]["output"])
  /\ targetRoot \in BOOLEAN
  /\ tgtDir = [e \in Exps |-> [s \in {"analysis", "output", "raw_data"} |-> FALSE]]
  /\ pc = "main"
  /\ dirs = <<>>
  /\ idx = 1
  /\ k = 1
  /\ ok_to_delete = TRUE
  /\ delete_done = TRUE
  /\ ERRORS = <<>>
  /\ DELETED = <<>>
  /\ TRANSFERRED = <<>>
  /\ observed = <<>>
  /\ fsops = <<>>
  /\ lastRmdir = "none"
  /\ reportChecked = FALSE
  /\ emailsSent = 0
  /\ exitCode = -1
  /\ run = 1
  /\ prev = NoRun
  /\ stuck = {}

\* ------------------------------------------------------------------ startup
\* __main__: parse the flags, load config.json
LoadConfig ==
  /\ pc = "main"
  /\ CONFIG' = config_json
  /\ pc' = "list"
  /\ UNCHANGED <<history, ARG, config_json, fsvars, dirs, idx, k, ok_to_delete,
                 delete_done, report, observed, fsops, lastRmdir, reportChecked, emailsSent, exitCode>>

\* sys.exit(code), from terminate_program or from an uncaught exception
Exit(code) ==
  /\ pc' = "exit"
  /\ exitCode' = ExitStatus(code)

\* os.listdir(source/merfish_output): the experiments that have an output directory
Listing ==
  LET S == {e \in Exps : srcDir[e]["output"]}
  IN  [i \in 1..Cardinality(S) |-> CHOOSE e \in S : Cardinality({x \in S : x < e}) = i - 1]

ListOK ==
  /\ pc = "list"
  /\ outputRoot
  /\ dirs' = Listing
  /\ pc' = "loop"
  /\ idx' = 1
  /\ UNCHANGED <<history, ARG, config_json, CONFIG, fsvars, k, ok_to_delete, delete_done,
                 report, observed, fsops, lastRmdir, reportChecked, emailsSent, exitCode>>

ListMissingAsEmpty ==
  /\ pc = "list"
  /\ ~outputRoot
  /\ dirs' = <<>>
  /\ pc' = "loop"
  /\ idx' = 1
  /\ UNCHANGED <<history, ARG, config_json, CONFIG, fsvars, k, ok_to_delete, delete_done,
                 report, observed, fsops, lastRmdir, reportChecked, emailsSent, exitCode>>

\* FileNotFoundError: terminate_program(msg)
ListMissing ==
  /\ pc = "list"
  /\ ~outputRoot
  /\ Exit(-1)
  /\ UNCHANGED <<history, ARG, config_json, CONFIG, fsvars, dirs, idx, k, ok_to_delete,
                 delete_done, report, observed, fsops, lastRmdir, reportChecked, emailsSent>>

\* any other exception of os.listdir: terminate_program(msg)
ListError ==
  /\ pc = "list"
  /\ outputRoot
  /\ Exit(-1)
  /\ UNCHANGED <<history, ARG, config_json, CONFIG, fsvars, dirs, idx, k, ok_to_delete,
                 delete_done, report, observed, fsops, lastRmdir, reportChecked, emailsSent>>

\* ------------------------------------------------- handle_single_experiment
Handling == pc = "loop" /\ idx <= Len(dirs)

\* the filesystem as handle_single_experiment finds it on entry
Observe(e) == [exp |-> e, target |-> targetRoot, secondaryRoot |-> secondaryRoot,
               cats |-> srcDir[e], sentinel |-> sentinel[e], sec |-> secDir[e],
               minimum_age |-> CONFIG.minimum_age]

\* return to the for loop of process_experiments
NextExp ==
  /\ pc' = "loop"
  /\ idx' = idx + 1
  /\ k' = 1
  /\ ok_to_delete' = TRUE
  /\ delete_done' = TRUE

GateRootMissing ==
  /\ Handling
  /\ ~RootExists
  /\ ERRORS' = Append(ERRORS, Err("Could not find target path", SecondaryRootPath, 0))
  /\ observed' = Append(observed, Observe(dirs[idx]))
  /\ NextExp
  /\ UNCHANGED <<history, ARG, config_json, CONFIG, fsvars, dirs, DELETED, TRANSFERRED,
                 fsops, lastRmdir, reportChecked, emailsSent, exitCode>>

GateMissing ==
  /\ Handling
  /\ RootExists
  /\ missing(dirs[idx])
  /\ observed' = Append(observed, Observe(dirs[idx]))
  /\ NextExp
  /\ UNCHANGED <<history, ARG, config_json, CONFIG, fsvars, dirs, report,
                 fsops, lastRmdir, reportChecked, emailsSent, exitCode>>

\* experiment_complete: the sentinel is not a file
GateInProcess ==
  /\ Handling
  /\ RootExists
  /\ ~missing(dirs[idx])
  /\ sentinel[dirs[idx]] = NoFile
  /\ ~experiment_complete(FALSE, 0)
  /\ observed' = Append(observed, Observe(dirs[idx]))
  /\ NextExp
  /\ UNCHANGED <<history, ARG, config_json, CONFIG, fsvars, dirs, report,
                 fsops, lastRmdir, reportChecked, emailsSent, exitCode>>

\* experiment_complete: os.path.getmtime raises; nothing catches it
GateStatRaises ==
  /\ Handling
  /\ RootExists
  /\ ~missing(dirs[idx])
  /\ sentinel[dirs[idx]] # NoFile
  /\ observed' = Append(observed, Observe(dirs[idx]))
  /\ fsops' = Append(fsops, [op |-> "getmtime", path |-> SourcePath("raw_data", dirs[idx]),
                             ok |-> FALSE])
  /\ UNCHANGED lastRmdir
  /\ Exit(1)
  /\ UNCHANGED <<history, ARG, config_json, CONFIG, fsvars, dirs, idx, k, ok_to_delete,
                 delete_done, report, reportChecked, emailsSent>>

\* experiment_complete: the sentinel is too young
GateYoung ==
  /\ Handling
  /\ RootExists
  /\ ~missing(dirs[idx])
  /\ sentinel[dirs[idx]] # NoFile
  /\ ~experiment_complete(TRUE, sentinel[dirs[idx]])
  /\ CONFIG' = [CONFIG EXCEPT !.minimum_age = MinimumAge]
  /\ observed' = Append(observed, Observe(dirs[idx]))
  /\ NextExp
  /\ UNCHANGED <<history, ARG, config_json, fsvars, dirs, report,
                 fsops, lastRmdir, reportChecked, emailsSent, exitCode>>

\* all gates passed: enter the copy loop
GateReady ==
  /\ Handling
  /\ RootExists
  /\ ~missing(dirs[idx])
  /\ sentinel[dirs[idx]] # NoFile
  /\ experiment_complete(TRUE, sentinel[dirs[idx]])
  /\ CONFIG' = [CONFIG EXCEPT !.minimum_age = MinimumAge]
  /\ observed' = Append(observed, Observe(dirs[idx]))
  /\ pc' = "copy"
  /\ k' = 1
  /\ ok_to_delete' = TRUE
  /\ UNCHANGED <<history, ARG, config_json, fsvars, dirs, idx, delete_done, report,
                 fsops, lastRmdir, reportChecked, emailsSent, exitCode>>

\* ---------------------------------------------------------------- copy loop
Copying == pc = "copy" /\ k \in 1..Len(SUFFIX)

DoTransfer == ARG.TRANSFER

\* ok_to_delete after a copy raised
OkToDeleteStaysTrue == TRUE

OkToDeleteOnRaise == FALSE

\* whether the copy loop is left after a copy raised
CopyLoopGoesOn(raised) == FALSE

CopyLoopBreaks(raised) == raised

EnterDeleteUnrecorded ==
  /\ pc' = "delete"
  /\ k' = 1
  /\ delete_done' = TRUE
  /\ idx' = idx
  /\ UNCHANGED TRANSFERRED

\* delete_experiment begins: delete_done = True, TRANSFERRED.append(exp)
EnterDelete ==
  /\ pc' = "delete"
  /\ k' = 1
  /\ delete_done' = TRUE
  /\ idx' = idx
  /\ TRANSFERRED' = Append(TRANSFERRED, dirs[idx])

AfterCopyLoopAlways(ok) == EnterDelete /\ ok_to_delete' = ok

\* the statement after the copy loop: if ok_to_delete: delete_experiment(exp)
AfterCopyLoop(ok) ==
  IF ok THEN EnterDelete /\ ok_to_delete' = ok
        ELSE NextExp /\ UNCHANGED TRANSFERRED

\* one iteration of the copy loop ends, having raised or not
CopyStep(raised, ok) ==
  IF CopyLoopBreaks(raised) \/ k = Len(SUFFIX)
    THEN AfterCopyLoop(ok)
    ELSE /\ pc' = "copy"
         /\ k' = k + 1
         /\ ok_to_delete' = ok
         /\ UNCHANGED <<idx, delete_done, TRANSFERRED>>

CopySkipBlocksDelete ==
  /\ Copying
  /\ ~DoTransfer
  /\ CopyStep(FALSE, FALSE)
  /\ UNCHANGED <<history, ARG, config_json, CONFIG, fsvars, dirs, ERRORS, DELETED,
                 observed, fsops, lastRmdir, reportChecked, emailsSent, exitCode>>

\* ARG.TRANSFER is off: the copy is logged and skipped
CopySkip ==
  /\ Copying
  /\ ~DoTransfer
  /\ CopyStep(FALSE, ok_to_delete)
  /\ UNCHANGED <<history, ARG, config_json, CONFIG, fsvars, dirs, ERRORS, DELETED,
                 observed, fsops, lastRmdir, reportChecked, emailsSent, exitCode>>

\* shutil.copytree(src, tgt, dirs_exist_ok=True) returns; it makes the missing parents
CopyOK ==
  /\ Copying
  /\ DoTransfer
  /\ tgtDir' = [tgtDir EXCEPT ![dirs[idx]][SUFFIX[k]] = TRUE]
  /\ targetRoot' = TRUE
  /\ fsops' = Append(fsops, [op |-> "copytree", path |-> SourcePath(SUFFIX[k], dirs[idx]),
                             ok |-> TRUE])
  /\ UNCHANGED lastRmdir
  /\ CopyStep(FALSE, ok_to_delete)
  /\ UNCHANGED <<history, ARG, config_json, CONFIG, outputRoot, srcDir, sentinel, secondaryRoot, secDir,
                 dirs, ERRORS, DELETED, observed, reportChecked, emailsSent, exitCode>>

\* shutil.copytree raises, before or after it made the destination's parents;
\* no complete copy results
CopyFail ==
  /\ Copying
  /\ DoTransfer
  /\ \E made \in BOOLEAN : targetRoot' = (targetRoot \/ made)
  /\ UNCHANGED tgtDir
  /\ fsops' = Append(fsops, [op |-> "copytree", path |-> SourcePath(SUFFIX[k], dirs[idx]),
                             ok |-> FALSE])
  /\ UNCHANGED lastRmdir
  /\ ERRORS' = Append(ERRORS, Err("Could not copy", SourcePath(SUFFIX[k], dirs[idx]), dirs[idx]))
  /\ CopyStep(TRUE, OkToDeleteOnRaise)
  /\ UNCHANGED <<history, ARG, config_json, CONFIG, outputRoot, srcDir, sentinel, secondaryRoot, secDir,
                 dirs, DELETED, observed, reportChecked, emailsSent, exitCode>>

\* -------------------------------------------- delete_experiment / delete_directory
Deleting == pc = "delete" /\ k \in 1..(Len(SUFFIX) + 1)

\* the secondary step is only taken on an existing secondary/<exp>
Removable == k <= Len(SUFFIX) \/ secDir[dirs[idx]]

DoDeleteAlways == TRUE

DoDelete == ARG.DELETE

\* whether the category loop is left after delete_directory returned result
DeleteLoopGoesOn(result) == FALSE

DeleteLoopBreaks(result) == ~result

\* delete_done after the secondary path was found missing
SecondaryMissingIgnored == TRUE

SecondaryMissingDone == FALSE

Incomplete(e) == Err("Deletion is incomplete", <<"", "", 0>>, e)

\* the end of delete_experiment, and with it of handle_single_experiment
FinishDelete(done, errs) ==
  /\ ERRORS' = IF done THEN errs ELSE Append(errs, Incomplete(dirs[idx]))
  /\ lastRmdir' = "none"
  /\ NextExp

\* delete_directory(path k) returned result, having left errs in ERRORS
\* and having called os.rmdir or not
DeleteStep(result, errs, rmdir) ==
  IF k <= Len(SUFFIX)
    THEN IF DeleteLoopBreaks(result)
           THEN FinishDelete(FALSE, errs)
           ELSE IF k = Len(SUFFIX) /\ ~(delete_done /\ result)
                  THEN FinishDelete(FALSE, errs)
                  ELSE /\ pc' = "delete"
                       /\ k' = k + 1
                       /\ delete_done' = (delete_done /\ result)
                       /\ ERRORS' = errs
                       /\ lastRmdir' = rmdir
                       /\ UNCHANGED <<idx, ok_to_delete>>
    ELSE FinishDelete(result, errs)

RemovedNothing(e, kk) == UNCHANGED <<srcDir, sentinel, secDir>>

\* the directory is gone, and with raw_data its sentinel
Removed(e, kk) ==
  /\ srcDir' = IF kk <= Len(SUFFIX) THEN [srcDir EXCEPT ![e][SUFFIX[kk]] = FALSE] ELSE srcDir
  /\ sentinel' = IF kk = Len(SUFFIX) THEN [sentinel EXCEPT ![e] = NoFile] ELSE sentinel
  /\ secDir' = IF kk > Len(SUFFIX) THEN [secDir EXCEPT ![e] = FALSE] ELSE secDir

\* the directory is still there; a removal that got into raw_data may have taken the sentinel
Lingers(e, kk, emptied) ==
  /\ sentinel' = IF kk = Len(SUFFIX) /\ emptied THEN [sentinel EXCEPT ![e] = NoFile]
                                                 ELSE sentinel
  /\ UNCHANGED <<srcDir, secDir>>

FsOp(op, ok) == [op |-> op, path |-> DeletePath(k, dirs[idx]), ok |-> ok]

\* ARG.DELETE is off: the path is reported, nothing is removed
DeleteDry ==
  /\ Deleting
  /\ Removable
  /\ ~DoDelete
  /\ DELETED' = Append(DELETED, DeletePath(k, dirs[idx]))
  /\ DeleteStep(TRUE, ERRORS, "none")
  /\ UNCHANGED <<history, ARG, config_json, CONFIG, fsvars, dirs, TRANSFERRED,
                 observed, fsops, reportChecked, emailsSent, exitCode>>

\* shutil.rmtree removes the tree
RmtreeOK ==
  /\ Deleting
  /\ Removable
  /\ DoDelete
  /\ Removed(dirs[idx], k)
  /\ fsops' = Append(fsops, FsOp("rmtree", TRUE))
  /\ DELETED' = Append(DELETED, DeletePath(k, dirs[idx]))
  /\ DeleteStep(TRUE, ERRORS, "none")
  /\ UNCHANGED <<history, ARG, config_json, CONFIG, outputRoot, secondaryRoot, targetRoot, tgtDir, dirs,
                 TRANSFERRED, observed, reportChecked, emailsSent, exitCode>>

\* shutil.rmtree raises: delete_directory returns False
RmtreeRaises ==
  /\ Deleting
  /\ Removable
  /\ DoDelete
  /\ \E emptied \in BOOLEAN : Lingers(dirs[idx], k, emptied)
  /\ fsops' = Append(fsops, FsOp("rmtree", FALSE))
  /\ DeleteStep(FALSE, Append(ERRORS, Err("Could not rmtree delete", DeletePath(k, dirs[idx]), 0)),
                "none")
  /\ UNCHANGED <<history, ARG, config_json, CONFIG, outputRoot, secondaryRoot, targetRoot, tgtDir, dirs,
                 DELETED, TRANSFERRED, observed, reportChecked, emailsSent, exitCode>>

\* shutil.rmtree returns but the top directory is still there; os.rmdir removes it
RmtreeLingerRmdirOK ==
  /\ Deleting
  /\ Removable
  /\ DoDelete
  /\ Removed(dirs[idx], k)
  /\ fsops' = Append(fsops, FsOp("rmtree", TRUE))
  /\ DELETED' = Append(DELETED, DeletePath(k, dirs[idx]))
  /\ DeleteStep(TRUE, ERRORS, "ok")
  /\ UNCHANGED <<history, ARG, config_json, CONFIG, outputRoot, secondaryRoot, targetRoot, tgtDir, dirs,
                 TRANSFERRED, observed, reportChecked, emailsSent, exitCode>>

\* the top directory is still there and os.rmdir raises: the rmdir error is recorded,
\* the directory still exists, and line 129 raises NameError (ERROR is not defined),
\* which nothing catches
RmtreeLingerRmdirRaises ==
  /\ Deleting
  /\ Removable
  /\ DoDelete
  /\ Lingers(dirs[idx], k, TRUE)
  /\ fsops' = Append(fsops, FsOp("rmtree", TRUE))
  /\ lastRmdir' = "raised"
  /\ ERRORS' = Append(ERRORS, Err("Could not rmdir delete", DeletePath(k, dirs[idx]), 0))
  /\ Exit(1)
  /\ UNCHANGED <<history, ARG, config_json, CONFIG, outputRoot, secondaryRoot, targetRoot, tgtDir, dirs,
                 idx, k, ok_to_delete, delete_done, DELETED, TRANSFERRED, observed,
                 reportChecked, emailsSent>>

\* secondary/<exp> does not exist: no removal, the deletion is incomplete
SecondaryMissing ==
  /\ Deleting
  /\ ~Removable
  /\ FinishDelete(SecondaryMissingDone, ERRORS)
  /\ UNCHANGED <<history, ARG, config_json, CONFIG, fsvars, dirs, DELETED, TRANSFERRED,
                 observed, fsops, reportChecked, emailsSent, exitCode>>

\* ------------------------------------------------ end of process_experiments
Finished == pc = "loop" /\ idx > Len(dirs)

ReportDueNoErrors == TRANSFERRED # <<>> \/ DELETED # <<>>

ReportDue == TRANSFERRED # <<>> \/ DELETED # <<>> \/ ERRORS # <<>>

\* nothing to report: terminate_program()
NoReport ==
  /\ Finished
  /\ ~ReportDue
  /\ reportChecked' = TRUE
  /\ Exit(0)
  /\ UNCHANGED <<history, ARG, config_json, CONFIG, fsvars, dirs, idx, k, ok_to_delete,
                 delete_done, report, observed, fsops, lastRmdir, emailsSent>>

\* email_results sends the mail, then terminate_program()
EmailOK ==
  /\ Finished
  /\ ReportDue
  /\ reportChecked' = TRUE
  /\ emailsSent' = emailsSent + 1
  /\ Exit(0)
  /\ UNCHANGED <<history, ARG, config_json, CONFIG, fsvars, dirs, idx, k, ok_to_delete,
                 delete_done, report, observed, fsops, lastRmdir>>

\* send_email raises: terminate_program(msg)
EmailFail ==
  /\ Finished
  /\ ReportDue
  /\ reportChecked' = TRUE
  /\ Exit(-1)
  /\ UNCHANGED <<history, ARG, config_json, CONFIG, fsvars, dirs, idx, k, ok_to_delete,
                 delete_done, report, observed, fsops, lastRmdir, emailsSent>>

Next ==
  \/ LoadConfig
  \/ ListOK
  \/ ListMissing
  \/ ListError
  \/ GateRootMissing
  \/ GateMissing
  \/ GateInProcess
  \/ GateStatRaises
  \/ GateYoung
  \/ GateReady
  \/ CopySkip
  \/ CopyOK
  \/ CopyFail
  \/ DeleteDry
  \/ RmtreeOK
  \/ RmtreeRaises
  \/ RmtreeLingerRmdirOK
  \/ RmtreeLingerRmdirRaises
  \/ SecondaryMissing
  \/ NoReport
  \/ EmailOK
  \/ EmailFail

Spec == Init /\ [][Next]_vars

\* ------------------------------------------------------------ successive runs
\* what the run that has ended hands to the next one's observer
RunRecord == [TRANSFERRED |-> TRANSFERRED, DELETED |-> DELETED, emailsSent |-> emailsSent,
              dirs |-> dirs, sentinel |-> sentinel,
              reported |-> reportChecked, exitCode |-> exitCode]

\* experiments of which the run that has ended removed a source category
\* directory without getting through all four removals
PartlyRemoved ==
  {e \in Exps : /\ \E i \in DOMAIN observed :
                     observed[i].exp = e /\ \E sfx \in DOMAIN observed[i].cats :
                                              observed[i].cats[sfx] /\ ~srcDir[e][sfx]
                /\ Cardinality({j \in DOMAIN DELETED : DELETED[j][3] = e}) < Len(SUFFIX) + 1}

\* the clock has moved on: no sentinel is younger than it was
Aged ==
  /\ sentinel' \in [Exps -> {NoFile} \cup AgeChoices]
  /\ \A e \in Exps : IF sentinel[e] = NoFile THEN sentinel'[e] = NoFile
                                               ELSE sentinel'[e] >= sentinel[e]

\* the program is started again on the filesystem the last run left: the
\* module-level lists start empty, CONFIG is not loaded yet
Rerun ==
  /\ pc = "exit"
  /\ run < MaxRuns
  /\ run' = run + 1
  /\ prev' = RunRecord
  /\ stuck' = stuck \cup PartlyRemoved
  /\ Aged
  /\ CONFIG' = [minimum_age |-> NoFile]
  /\ pc' = "main"
  /\ dirs' = <<>>
  /\ idx' = 1
  /\ k' = 1
  /\ ok_to_delete' = TRUE
  /\ delete_done' = TRUE
  /\ ERRORS' = <<>>
  /\ DELETED' = <<>>
  /\ TRANSFERRED' = <<>>
  /\ observed' = <<>>
  /\ fsops' = <<>>
  /\ lastRmdir' = "none"
  /\ reportChecked' = FALSE
  /\ emailsSent' = 0
  /\ exitCode' = -1
  /\ UNCHANGED <<ARG, config_json, outputRoot, srcDir, secondaryRoot, secDir, targetRoot, tgtDir>>

NextRerun == Next \/ Rerun

SpecRerun == Init /\ [][NextRerun]_vars

\* =====================================================================
\* Properties
\* =====================================================================
Cats == {"analysis", "output", "raw_data"}

\* the four paths of experiment e, in the order the specification gives
FourPaths(e) == << <<"source", "analysis", e>>, <<"source", "output", e>>,
                   <<"source", "raw_data", e>>, <<"secondary", "", e>> >>

IsPrefix(s, t) == Len(s) <= Len(t) /\ \A j \in 1..Len(s) : s[j] = t[j]

\* the entries of DELETED that are paths of experiment e, in order
DeletedOf(e) == LET OfE(p) == p[3] = e IN SelectSeq(DELETED, OfE)

\* the rmtree calls on paths of experiment e, in order
RmtreesOf(e) == LET OfE(c) == c.op = "rmtree" /\ c.path[3] = e IN SelectSeq(fsops, OfE)

\* positions in fsops of the copies of experiment e that completed
CopiedAt(e) == {j \in DOMAIN fsops : fsops[j].op = "copytree" /\ fsops[j].ok /\ fsops[j].path[3] = e}

\* all three categories of e were copied before position j of fsops
AllCopiedBefore(e, j) ==
  \A s \in Cats : \E c \in CopiedAt(e) : c < j /\ fsops[c].path = <<"source", s, e>>

TimesIn(seq, x) == Cardinality({j \in DOMAIN seq : seq[j] = x})

ErrorsOf(e) == {j \in DOMAIN ERRORS : ErrRefs(ERRORS[j], e)}

\* handling of the i-th listed experiment has returned
Returned(i) == i <= Len(observed) /\ idx > i

\* the directories of the observed experiment are as they were on entry
Untouched(o) ==
  /\ srcDir[o.exp] = o.cats
  /\ sentinel[o.exp] = o.sentinel
  /\ secDir[o.exp] = o.sec
  /\ \A s \in Cats : ~tgtDir[o.exp][s]

\* no copy and no removal was attempted on the experiment
NoFsCall(e) == \A j \in DOMAIN fsops : fsops[j].path[3] = e => fsops[j].op = "getmtime"

\* something that was there when e was entered has been removed
SomethingRemoved(e) ==
  \E i \in DOMAIN observed :
     /\ observed[i].exp = e
     /\ \/ \E s \in Cats : observed[i].cats[s] /\ ~srcDir[e][s]
        \/ observed[i].sec /\ ~secDir[e]

\* C1: with --transfer, nothing of an experiment is removed, no removal is
\* attempted and delete_experiment is not entered unless the copies of all three
\* categories completed before, in the same handling of that experiment.
C1_DeleteOnlyAfterAllCopies ==
  ARG.TRANSFER =>
    \A e \in Exps :
      /\ \A j \in DOMAIN fsops :
           (fsops[j].op = "rmtree" /\ fsops[j].path[3] = e) => AllCopiedBefore(e, j)
      /\ (TimesIn(TRANSFERRED, e) > 0 \/ DeletedOf(e) # <<>> \/ SomethingRemoved(e)
          \/ (pc = "delete" /\ dirs[idx] = e))
           => /\ AllCopiedBefore(e, Len(fsops) + 1)
              /\ \A s \in Cats : tgtDir[e][s]

C1_Witness ==
  /\ ARG.TRANSFER
  /\ ARG.DELETE
  /\ \E e \in Exps : SomethingRemoved(e) /\ ~secDir[e] /\ \A s \in Cats : ~srcDir[e][s]

\* the copy of category kk of experiment e raised
CopyRaised(e, kk) ==
  \E j \in DOMAIN fsops : fsops[j] = [op |-> "copytree", path |-> <<"source", SUFFIX[kk], e>>,
                                      ok |-> FALSE]

\* C2: with --transfer, when the copy of the k-th category raises, the later
\* categories are not copied, nothing is deleted or reported deleted, the
\* experiment is not in TRANSFERRED, exactly one entry of ERRORS names it, and
\* the run has gone on to the next entry of the listing.
C2_CopyFailureStopsExperiment ==
  ARG.TRANSFER =>
    \A e \in Exps : \A kk \in 1..3 :
      CopyRaised(e, kk) =>
        /\ \A j \in DOMAIN fsops :
             fsops[j].path[3] = e =>
               /\ fsops[j].op = "copytree"
               /\ \E m \in 1..kk : fsops[j].path[2] = SUFFIX[m]
               /\ fsops[j].ok <=> fsops[j].path[2] # SUFFIX[kk]
        /\ ~SomethingRemoved(e)
        /\ DeletedOf(e) = <<>>
        /\ TimesIn(TRANSFERRED, e) = 0
        /\ Cardinality(ErrorsOf(e)) = 1
        /\ \E i \in DOMAIN dirs : dirs[i] = e /\ Returned(i)

C2_Witness ==
  /\ ARG.TRANSFER
  /\ \E e \in Exps :
       /\ CopyRaised(e, 2)
       /\ \E i \in DOMAIN observed : observed[i].exp = e /\ Len(observed) > i /\ idx > i + 1

RootErrors == {j \in DOMAIN ERRORS : ERRORS[j].msg = "Could not find target path"}

\* C5 as stated: every experiment entered while the target root does not exist
\* gets an error and is neither copied nor deleted, and no experiment entered
\* while the target root exists gets that error.
C5_TargetRootGate ==
  /\ Cardinality(RootErrors) = Cardinality({i \in DOMAIN observed : ~observed[i].target})
  /\ \A i \in DOMAIN observed :
       ~observed[i].target =>
          /\ NoFsCall(observed[i].exp)
          /\ TimesIn(TRANSFERRED, observed[i].exp) = 0
          /\ DeletedOf(observed[i].exp) = <<>>

\* the observed experiment passes the gates of handle_single_experiment
PassesGates(o) ==
  /\ o.secondaryRoot
  /\ \A s \in Cats : o.cats[s]
  /\ o.sentinel # NoFile
  /\ IntSeconds(o.sentinel) > 300

\* C6: with neither flag, nothing on the filesystem changes, and an experiment
\* that passes all gates and has its secondary directory is once in
\* TRANSFERRED, has exactly its four paths in DELETED, in order, and no entry
\* in ERRORS.
C6_DryRunReportsOnly ==
  (~ARG.TRANSFER /\ ~ARG.DELETE) =>
    /\ \A j \in DOMAIN fsops : fsops[j].op = "getmtime"
    /\ \A i \in DOMAIN observed :
         /\ Untouched(observed[i])
         /\ targetRoot = observed[i].target
         /\ secondaryRoot = observed[i].secondaryRoot
    /\ \A i \in DOMAIN observed :
         (Returned(i) /\ PassesGates(observed[i]) /\ observed[i].sec) =>
            /\ TimesIn(TRANSFERRED, observed[i].exp) = 1
            /\ DeletedOf(observed[i].exp) = FourPaths(observed[i].exp)
            /\ ErrorsOf(observed[i].exp) = {}

C6_Witness ==
  /\ ~ARG.TRANSFER /\ ~ARG.DELETE
  /\ \E i \in DOMAIN observed :
       /\ Returned(i) /\ PassesGates(observed[i]) /\ observed[i].sec
       /\ ~observed[i].target
       /\ Len(DELETED) >= 4

\* no filesystem or mail call of the run failed
NoFailure ==
  /\ \A j \in DOMAIN fsops : fsops[j].ok
  /\ lastRmdir # "raised"
  /\ exitCode = 0

\* the run is over and this was an experiment the end-to-end scenario describes
FullRunOf(i) ==
  /\ pc = "exit"
  /\ ARG.TRANSFER /\ ARG.DELETE
  /\ NoFailure
  /\ i \in DOMAIN observed
  /\ PassesGates(observed[i]) /\ observed[i].target /\ observed[i].sec

\* what the scenario expects of the experiment itself
FullRunMoved(e) ==
  /\ \A s \in Cats : tgtDir[e][s] /\ ~srcDir[e][s]
  /\ ~secDir[e]
  /\ TimesIn(TRANSFERRED, e) = 1
  /\ DeletedOf(e) = FourPaths(e)

\* C7 as stated: after a --transfer --delete run without failure, every such
\* experiment is copied, removed and reported, ERRORS is empty and one
\* notification was sent.
C7_Original ==
  \A i \in DOMAIN observed :
    FullRunOf(i) => /\ FullRunMoved(observed[i].exp)
                    /\ ERRORS = <<>>
                    /\ emailsSent = 1

\* C7 amended: after a --transfer --delete run without failure, every such
\* experiment is copied, removed and reported, no entry of ERRORS names it
\* (other experiments of the run may have left entries), and one notification
\* was sent.
C7_FullRun ==
  \A i \in DOMAIN observed :
    FullRunOf(i) => /\ FullRunMoved(observed[i].exp)
                    /\ ErrorsOf(observed[i].exp) = {}
                    /\ reportChecked
                    /\ emailsSent = 1

C7_Witness ==
  /\ \E i \in DOMAIN observed : FullRunOf(i)
  /\ ERRORS # <<>>
  /\ emailsSent = 1

\* C8: the removals of an experiment follow the order analysis, output,
\* raw_data, secondary; a removal that raises is the last one attempted, DELETED
\* then holds exactly the paths removed before it and the later directories are
\* still there; the secondary copy is only attempted after the three source
\* categories were removed and reported.
C8_DeleteInOrderFailFast ==
  \A e \in Exps :
    LET r == RmtreesOf(e)
        d == DeletedOf(e)
    IN /\ Len(r) <= 4
       /\ \A j \in 1..Len(r) : r[j].path = FourPaths(e)[j]
       /\ \A j \in 1..Len(r) : ~r[j].ok => j = Len(r)
       /\ IsPrefix(d, FourPaths(e))
       /\ \A j \in 1..Len(r) :
            ~r[j].ok =>
               /\ Len(d) = j - 1
               /\ \A m \in j..3 : srcDir[e][SUFFIX[m]]
               /\ \A i \in DOMAIN observed : observed[i].exp = e => secDir[e] = observed[i].sec
       /\ (Len(r) = 4 \/ Len(d) = 4) =>
            /\ Len(d) >= 3
            /\ ARG.DELETE => \A m \in 1..3 : r[m].ok /\ ~srcDir[e][SUFFIX[m]]

C8_Witness ==
  \E e \in Exps :
    /\ Len(RmtreesOf(e)) = 2
    /\ ~RmtreesOf(e)[2].ok
    /\ DeletedOf(e) = << <<"source", "analysis", e>> >>
    /\ \E i \in DOMAIN observed : observed[i].exp = e /\ Returned(i) /\ observed[i].sec

\* C9: when the three source categories of an experiment were deleted (really
\* or as a dry run) and secondary/<name> does not exist, ERRORS holds the
\* "deletion incomplete" entry of that experiment, no removal of secondary/<name>
\* is attempted and it is not in DELETED.
C9_SecondaryMissing ==
  \A i \in DOMAIN observed :
    LET e == observed[i].exp IN
      (Returned(i) /\ ~observed[i].sec /\ Len(DeletedOf(e)) >= 3) =>
         /\ \E j \in DOMAIN ERRORS : ERRORS[j].msg = "Deletion is incomplete" /\ ERRORS[j].exp = e
         /\ \A j \in DOMAIN fsops : fsops[j].path # <<"secondary", "", e>>
         /\ DeletedOf(e) = SubSeq(FourPaths(e), 1, 3)

C9_Witness ==
  /\ ARG.DELETE
  /\ \E i \in DOMAIN observed :
       /\ Returned(i) /\ ~observed[i].sec
       /\ Len(DeletedOf(observed[i].exp)) = 3
       /\ \A s \in Cats : ~srcDir[observed[i].exp][s]

\* C10 as stated: once the listing succeeded, the run only ends after every
\* entry of the listing was handled and the report step was reached.
C10_RunSurvivesExceptions ==
  (pc = "exit" /\ Len(dirs) > 0) => (idx > Len(dirs) /\ reportChecked)

\* C11 as stated: when the directory is still there after the os.rmdir fallback,
\* an anomaly entry is appended to ERRORS and the run carries on.
C11_LingeringDirectoryCarriesOn ==
  lastRmdir = "raised" =>
    /\ pc # "exit"
    /\ \E j \in DOMAIN ERRORS : ERRORS[j].msg = "Despite attempts to delete it, still exists"

\* one of the three report lists is not empty
SomethingToReport == TRANSFERRED # <<>> \/ DELETED # <<>> \/ ERRORS # <<>>

IncompleteAt(e) ==
  {j \in DOMAIN ERRORS : ERRORS[j].msg = "Deletion is incomplete" /\ ERRORS[j].exp = e}

\* C13 as stated: when delete_experiment has returned without all four removals,
\* ERRORS holds the "deletion incomplete" entry of the experiment as the last
\* entry about it, after at least one specific error about the same experiment;
\* when all four removals succeeded there is no such entry.
C13_IncompleteAfterSpecificError ==
  \A i \in DOMAIN observed :
    LET e == observed[i].exp IN
      (Returned(i) /\ TimesIn(TRANSFERRED, e) > 0) =>
        IF Len(DeletedOf(e)) = 4
          THEN IncompleteAt(e) = {}
          ELSE \E j \in IncompleteAt(e) :
                 /\ \A m \in ErrorsOf(e) : m <= j
                 /\ \E m \in ErrorsOf(e) : m < j /\ ERRORS[m].msg # "Deletion is incomplete"

\* C14: a listing of source/merfish_output that fails (always so when the
\* directory is missing) ends the process with a non-zero status before any
\* experiment is handled: the filesystem is untouched, the three report lists
\* are empty and no notification is sent.
C14_ListingFailureIsFatal ==
  [][pc = "list" =>
       /\ ~outputRoot => pc' = "exit"
       /\ pc' = "exit" =>
            /\ exitCode' # 0
            /\ UNCHANGED fsvars
            /\ ERRORS' = <<>> /\ DELETED' = <<>> /\ TRANSFERRED' = <<>>
            /\ observed' = <<>> /\ fsops' = <<>>
            /\ emailsSent' = 0 /\ ~reportChecked']_vars

C14_Witness ==
  /\ pc = "exit" /\ exitCode = 255
  /\ ~reportChecked /\ observed = <<>>
  /\ ARG.TRANSFER /\ ARG.DELETE
  /\ \E e \in Exps :
       /\ \A s \in Cats : srcDir[e][s]
       /\ sentinel[e] # NoFile /\ IntSeconds(sentinel[e]) > 300
       /\ secDir[e]

\* the process has ended after a listing that succeeded
EndedAfterListing == pc = "exit" /\ (reportChecked \/ observed # <<>>)

\* the notification was due and sending it failed
SendFailed == reportChecked /\ SomethingToReport /\ emailsSent = 0

\* C15 as stated: a run whose listing succeeded, and in which reading the
\* sentinels did not fail, ends with status 0 whatever was recorded in ERRORS,
\* unless sending the notification failed, and then with a non-zero status.
C15_ExitStatus ==
  (EndedAfterListing /\ \A j \in DOMAIN fsops : fsops[j].op # "getmtime") =>
     IF SendFailed THEN exitCode # 0 ELSE exitCode = 0

\* C16: with --delete and without --transfer, an experiment that passes all
\* gates is not copied, yet delete_experiment runs for it: it enters
\* TRANSFERRED, its removal is attempted, and when no removal raises its three
\* source category directories and its secondary directory are gone.
C16_DeleteWithoutTransfer ==
  (ARG.DELETE /\ ~ARG.TRANSFER) =>
    \A i \in DOMAIN observed :
      LET e == observed[i].exp IN
        (Returned(i) /\ PassesGates(observed[i]) /\ observed[i].sec) =>
          /\ \A j \in DOMAIN fsops : fsops[j].op # "copytree"
          /\ \A s \in Cats : ~tgtDir[e][s]
          /\ TimesIn(TRANSFERRED, e) = 1
          /\ RmtreesOf(e) # <<>>
          /\ (\A j \in DOMAIN RmtreesOf(e) : RmtreesOf(e)[j].ok) =>
                /\ \A s \in Cats : ~srcDir[e][s]
                /\ ~secDir[e]
                /\ DeletedOf(e) = FourPaths(e)

C16_Witness ==
  /\ ARG.DELETE /\ ~ARG.TRANSFER
  /\ \E i \in DOMAIN observed :
       /\ Returned(i) /\ PassesGates(observed[i]) /\ observed[i].sec
       /\ \A s \in Cats : ~srcDir[observed[i].exp][s] /\ ~tgtDir[observed[i].exp][s]
       /\ ~secDir[observed[i].exp]
       /\ fsops # <<>>

\* the copy loop of e ended with every copy done (--transfer) or skipped
CopiesDoneOrSkipped(e) ==
  IF ARG.TRANSFER THEN AllCopiedBefore(e, Len(fsops) + 1)
                  ELSE \A j \in DOMAIN fsops : fsops[j].op # "copytree"

ReportConsistent ==
  /\ \A j \in DOMAIN DELETED :
       /\ DELETED[j][3] \in Exps
       /\ \E m \in 1..4 : DELETED[j] = FourPaths(DELETED[j][3])[m]
       /\ TimesIn(TRANSFERRED, DELETED[j][3]) > 0
  /\ \A j \in DOMAIN TRANSFERRED :
       LET e == TRANSFERRED[j] IN
         /\ \E i \in DOMAIN observed : observed[i].exp = e /\ PassesGates(observed[i])
         /\ CopiesDoneOrSkipped(e)
         /\ \A c \in DOMAIN fsops :
              (fsops[c].op = "copytree" /\ fsops[c].path[3] = e) => fsops[c].ok
         /\ TimesIn(TRANSFERRED, e) = 1
         /\ Len(DeletedOf(e)) <= 4

\* C18: the three report lists only grow by appending; every path in DELETED
\* is one of the four paths of an experiment already in TRANSFERRED; an
\* experiment is in TRANSFERRED only if it passed all gates and each of its
\* three copies succeeded or was skipped; it is there at most once and has at
\* most four paths in DELETED.
C18_ReportLists ==
  /\ []ReportConsistent
  /\ [][/\ IsPrefix(ERRORS, ERRORS')
        /\ IsPrefix(DELETED, DELETED')
        /\ IsPrefix(TRANSFERRED, TRANSFERRED')]_vars

C18_Witness ==
  /\ Len(TRANSFERRED) = 2
  /\ Len(DELETED) = 5
  /\ ERRORS # <<>>
  /\ ARG.TRANSFER

\* nothing in the report lists or among the filesystem calls of this run is about e
NothingRecorded(e) ==
  /\ TimesIn(TRANSFERRED, e) = 0
  /\ DeletedOf(e) = <<>>
  /\ ErrorsOf(e) = {}
  /\ \A j \in DOMAIN fsops : fsops[j].path[3] # e

\* this run entered e and left it at the missing-category gate
SkippedAtMissingGate(e) ==
  \E i \in DOMAIN observed :
     /\ observed[i].exp = e
     /\ observed[i].secondaryRoot
     /\ \E s \in Cats : ~observed[i].cats[s]

\* this run did not list e
NotListed(e) == \A i \in DOMAIN dirs : dirs[i] # e

RunOver == pc = "exit" /\ reportChecked

\* C17 as stated: with --delete, an experiment that an earlier run removed in
\* part has nothing recorded about it in a later run, and a later run that
\* got through its listing skipped it at the missing-category gate.
C17_Original ==
  ARG.DELETE =>
    \A e \in stuck :
       /\ NothingRecorded(e)
       /\ RunOver => SkippedAtMissingGate(e)

StuckLeftAlone ==
  ARG.DELETE =>
    \A e \in stuck :
       /\ NothingRecorded(e)
       /\ \A i \in DOMAIN observed : observed[i].exp = e => SkippedAtMissingGate(e)
       /\ RunOver => IF srcDir[e]["output"] THEN SkippedAtMissingGate(e)
                                            ELSE NotListed(e)

\* C17 amended: with --delete, an experiment that an earlier run removed in
\* part is, in every later run, either not listed (its output directory is
\* among those removed) or skipped at the missing-category gate; nothing is
\* recorded about it, and none of its source category directories nor its
\* secondary directory is removed.
C17_PartlyRemovedStaysBehind ==
  /\ []StuckLeftAlone
  /\ [][ARG.DELETE => \A e \in stuck : srcDir'[e] = srcDir[e] /\ secDir'[e] = secDir[e]]_vars

C17_Witness ==
  /\ ARG.DELETE
  /\ run > 1
  /\ RunOver
  /\ \E e \in stuck : srcDir[e]["output"] /\ srcDir[e]["raw_data"] /\ SkippedAtMissingGate(e)
  /\ \E e \in stuck : ~srcDir[e]["output"] /\ secDir[e] /\ NotListed(e)

\* the previous run got through its listing and every experiment it listed
\* is in its TRANSFERRED and has its four paths in its DELETED
PrevMovedAll ==
  /\ run > 1
  /\ prev.reported
  /\ \A i \in DOMAIN prev.dirs :
       /\ \E j \in DOMAIN prev.TRANSFERRED : prev.TRANSFERRED[j] = prev.dirs[i]
       /\ \A m \in 1..4 : \E j \in DOMAIN prev.DELETED :
                             prev.DELETED[j] = FourPaths(prev.dirs[i])[m]

\* after a --transfer --delete run that moved all it listed, the next run
\* copies nothing, removes nothing, records nothing and sends nothing
QuietAfterFullMove ==
  (ARG.TRANSFER /\ ARG.DELETE /\ PrevMovedAll) =>
     /\ \A j \in DOMAIN fsops : fsops[j].op = "getmtime"
     /\ ERRORS = <<>> /\ DELETED = <<>> /\ TRANSFERRED = <<>>
     /\ emailsSent = 0

\* both the previous run and this one, with neither flag, ended normally
TwoDryRuns ==
  /\ ~ARG.TRANSFER /\ ~ARG.DELETE
  /\ run > 1
  /\ prev.reported /\ prev.exitCode = 0
  /\ RunOver /\ exitCode = 0

SameReport ==
  /\ TRANSFERRED = prev.TRANSFERRED
  /\ DELETED = prev.DELETED
  /\ prev.emailsSent = 1 => emailsSent = 1

\* no sentinel went from too young to old enough between the two runs
SameVerdicts ==
  \A e \in Exps :
     sentinel[e] # NoFile =>
        ((IntSeconds(prev.sentinel[e]) > 300) <=> (IntSeconds(sentinel[e]) > 300))

\* C19 as stated: after a --transfer --delete run that moved all it listed
\* the next run is quiet; after a run with neither flag the next run has the
\* same TRANSFERRED and DELETED and sends a notification again.
C19_Original ==
  /\ QuietAfterFullMove
  /\ TwoDryRuns => SameReport

\* C19 amended: after a --transfer --delete run that moved all it listed the
\* next run is quiet; after a run with neither flag the next run has the same
\* TRANSFERRED and DELETED and sends a notification again, provided no
\* sentinel has crossed the five-minute age between the two runs.
C19_RerunStable ==
  /\ QuietAfterFullMove
  /\ (TwoDryRuns /\ SameVerdicts) => SameReport

C19_Witness ==
  /\ TwoDryRuns
  /\ SameVerdicts
  /\ Len(TRANSFERRED) = 1
  /\ Len(dirs) = 2
  /\ \E e \in Exps : sentinel[e] # NoFile /\ IntSeconds(sentinel[e]) <= 300
  /\ emailsSent = 1

\* the first case of C19 happens: a run after one that moved two experiments
QuietRerunReached ==
  /\ ARG.TRANSFER /\ ARG.DELETE /\ PrevMovedAll
  /\ Len(prev.TRANSFERRED) = 2
  /\ RunOver

====
